---- MODULE Spec2Model ----
(***************************************************************************)
(* Route-access gate (src/middleware.ts) and MongoDB client module         *)
(* (src/lib/db.ts) of fcendesu/authjs-v5-oauth-middleware.                 *)
(*                                                                         *)
(* Paths are strings; String.prototype.startsWith and the matcher's        *)
(* regular expression are computed character by character.                 *)
(*                                                                         *)
(* The middleware callback contains no await, so one invocation runs to    *)
(* completion on the JavaScript event loop: concurrent requests are        *)
(* interleavings of whole invocations.  The body of db.ts is synchronous   *)
(* too, so one evaluation of the module is one step.                       *)
(***************************************************************************)
EXTENDS Integers, Sequences, FiniteSets, TLC

VARIABLES
    privateRoutes,   \* middleware.ts:5, module-level array
    nav,             \* the navigation in progress: request, response, redirects followed
    sample,          \* history: at most one earlier invocation of the callback, chosen arbitrarily
    MONGODB_URI,     \* process.env.MONGODB_URI
    NODE_ENV,        \* process.env.NODE_ENV
    _mongoClient,    \* global._mongoClient (db.ts:23-25)
    client,          \* db.ts:18, the module-scoped client of the latest evaluation
    constructed,     \* number of `new MongoClient(...)` executed so far
    exported,        \* every handle a completed evaluation of db.ts exported
    lastLoad,        \* outcome of the latest evaluation of db.ts
    loads,           \* evaluations of db.ts so far
    adapterClient    \* handles passed to MongoDBAdapter(client) by auth.ts

gateVars == <<privateRoutes, nav, sample>>
dbVars == <<MONGODB_URI, NODE_ENV, _mongoClient, client, constructed, exported,
            lastLoad, loads, adapterClient>>
vars == <<privateRoutes, nav, sample, MONGODB_URI, NODE_ENV, _mongoClient, client,
          constructed, exported, lastLoad, loads, adapterClient>>

----------------------------------------------------------------------------
(* Bounds *)

\* cap on the redirects one navigation follows (browsers give up as well)
MaxHops == 3
\* cap on the number of evaluations of db.ts in one process
MaxLoads == 4

----------------------------------------------------------------------------
(* Values *)

Undefined == "undefined"
Null == "null"
\* the session object of an authenticated user
Session == "session{user:42}"

\* req.auth as the session resolver hands it over: a session, or null / undefined
AuthValues == {Undefined, Null, Session}

\* request paths (nextUrl.pathname); every pathname begins with "/"
Paths == {"/", "/about", "/login", "/login/x", "/loginx",
          "/dashboard", "/dashboard/a", "/dashboardx", "/dash",
          "/deneme", "/deneme/b",
          "/api/a", "/_next/static", "/_next/image",
          "/favicon.ico", "/faviconxico"}

\* JavaScript !!v for the values of req.auth
TruthyAuth(v) == v \notin {Undefined, Null}

\* String.prototype.startsWith
StartsWith(s, p) == Len(p) <= Len(s) /\ SubSeq(s, 1, Len(p)) = p

\* middleware.ts:5
privateRoutesOnlyDashboard == <<"/dashboard">>
privateRoutesWithLogin == <<"/dashboard", "/deneme", "/login">>
privateRoutesSrc == <<"/dashboard", "/deneme">>

\* Array.prototype.some with the callback of middleware.ts:18
SomeAsEvery(routes, pathname) ==
    \A i \in 1..Len(routes) : StartsWith(pathname, routes[i])
SomeRouteStartsWith(routes, pathname) ==
    \E i \in 1..Len(routes) : StartsWith(pathname, routes[i])

\* middleware.ts:11
isLoginRouteExact(pathname) == pathname = "/login"
isLoginRoute(pathname) == StartsWith(pathname, "/login")

\* what the callback returns
Allow == [type |-> "next"]
RedirectTo(path) == [type |-> "redirect", to |-> path]

\* middleware.ts:8-22, the callback given to auth(); returning nothing
\* (undefined) lets the request proceed
GateIgnoresVerdict(auth, pathname) ==
    LET isLoggedIn == TruthyAuth(auth)
    IN  IF isLoggedIn /\ isLoginRoute(pathname)
        THEN RedirectTo("/dashboard")
        ELSE IF SomeRouteStartsWith(privateRoutes, pathname)
             THEN RedirectTo("/login")
             ELSE Allow
GateAnonymousToLogin(auth, pathname) ==
    LET isLoggedIn == TruthyAuth(auth)
    IN  IF isLoggedIn /\ isLoginRoute(pathname)
        THEN RedirectTo("/dashboard")
        ELSE IF ~isLoggedIn
             THEN RedirectTo("/login")
             ELSE Allow
Gate(auth, pathname) ==
    LET isLoggedIn == TruthyAuth(auth)
    IN  IF isLoggedIn /\ isLoginRoute(pathname)
        THEN RedirectTo("/dashboard")
        ELSE IF ~isLoggedIn /\ SomeRouteStartsWith(privateRoutes, pathname)
             THEN RedirectTo("/login")
             ELSE Allow

----------------------------------------------------------------------------
(* config.matcher, middleware.ts:24-31 *)

\* the regular-expression metacharacter "." (any character)
AnyChar == "<any>"

\* the alternatives of the negative lookahead (?!api|_next/static|_next/image|favicon.ico),
\* as the regular expression reads them: the "." of favicon.ico is unescaped
LookaheadAlternatives ==
    { <<"a","p","i">>,
      <<"_","n","e","x","t","/","s","t","a","t","i","c">>,
      <<"_","n","e","x","t","/","i","m","a","g","e">>,
      <<"f","a","v","i","c","o","n",AnyChar,"i","c","o">> }

\* the regular expression alt matches at position from of s
MatchesAt(s, from, alt) ==
    /\ from + Len(alt) - 1 <= Len(s)
    /\ \A i \in 1..Len(alt) :
          alt[i] = AnyChar \/ SubSeq(s, from + i - 1, from + i - 1) = alt[i]

\* "/((?!api|_next/static|_next/image|favicon.ico).*)"
MatchesCatchAll(pathname) ==
    /\ StartsWith(pathname, "/")
    /\ ~ \E alt \in LookaheadAlternatives : MatchesAt(pathname, 2, alt)

\* "/dashboard/:path*": /dashboard followed by zero or more non-empty segments
MatchesDashboard(pathname) ==
    \/ pathname = "/dashboard"
    \/ /\ StartsWith(pathname, "/dashboard/")
       /\ Len(pathname) > Len("/dashboard/")
       /\ \A i \in 1..(Len(pathname) - 1) :
             ~(SubSeq(pathname, i, i) = "/" /\ SubSeq(pathname, i + 1, i + 1) = "/")
       /\ SubSeq(pathname, Len(pathname), Len(pathname)) # "/"

\* "/login"
MatchesLogin(pathname) == pathname = "/login"

\* the middleware runs when at least one matcher pattern matches
Matcher(pathname) ==
    MatchesCatchAll(pathname) \/ MatchesDashboard(pathname) \/ MatchesLogin(pathname)

----------------------------------------------------------------------------
(* Requests through the middleware *)

Idle == [phase |-> "idle"]

\* a browser starts a navigation: a request with the verdict of the session resolver
Request(auth, pathname) ==
    /\ nav.phase \in {"idle", "served"}
    /\ nav' = [phase |-> "pending", auth |-> auth, path |-> pathname, hops |-> 0]
    /\ UNCHANGED <<privateRoutes, sample>>
    /\ UNCHANGED dbVars

\* the framework applies config.matcher and, on a match, runs the callback;
\* NextResponse.redirect answers with a redirect, no return value lets the request through
MiddlewareRemembering ==
    /\ nav.phase = "pending"
    /\ LET gated == Matcher(nav.path)
           decision == IF gated THEN Gate(nav.auth, nav.path) ELSE Allow
           handled == [auth |-> nav.auth, path |-> nav.path, decision |-> decision]
       IN  /\ nav' = [phase |-> IF decision.type = "redirect" THEN "redirected" ELSE "served",
                      auth |-> nav.auth, path |-> nav.path, hops |-> nav.hops,
                      gated |-> gated, decision |-> decision]
           /\ IF gated THEN sample' \in {sample, {handled}} ELSE sample' = sample
           /\ privateRoutes' = IF gated /\ decision.type = "next" /\ TruthyAuth(nav.auth)
                               THEN Append(privateRoutes, nav.path)
                               ELSE privateRoutes
    /\ UNCHANGED dbVars
Middleware ==
    /\ nav.phase = "pending"
    /\ LET gated == Matcher(nav.path)
           decision == IF gated THEN Gate(nav.auth, nav.path) ELSE Allow
           handled == [auth |-> nav.auth, path |-> nav.path, decision |-> decision]
       IN  /\ nav' = [phase |-> IF decision.type = "redirect" THEN "redirected" ELSE "served",
                      auth |-> nav.auth, path |-> nav.path, hops |-> nav.hops,
                      gated |-> gated, decision |-> decision]
           /\ IF gated THEN sample' \in {sample, {handled}} ELSE sample' = sample
    /\ UNCHANGED privateRoutes
    /\ UNCHANGED dbVars

\* the browser follows the redirect: a new request for the target, same verdict
FollowRedirect ==
    /\ nav.phase = "redirected"
    /\ nav.hops < MaxHops
    /\ nav' = [phase |-> "pending", auth |-> nav.auth, path |-> nav.decision.to,
               hops |-> nav.hops + 1]
    /\ UNCHANGED <<privateRoutes, sample>>
    /\ UNCHANGED dbVars

----------------------------------------------------------------------------
(* lib/db.ts and its importer auth.ts *)

Unset == 0

\* the environments a process can be started in
UriValues == {Undefined, "", "mongodb://localhost:27017"}
NodeEnvValues == {Undefined, "development", "production", "test"}

\* JavaScript truthiness of process.env.MONGODB_URI (db.ts:4): undefined and "" are falsy
TruthyUriOnlyDefined(v) == v # Undefined
TruthyUri(v) == v \notin {Undefined, ""}

\* db.ts:20
UseGlobal(nodeEnv) == nodeEnv = "development"

\* db.ts:27, !globalWithMongo._mongoClient
GlobalMissingAlways(g) == TRUE
GlobalMissing(g) == g = Unset

\* one evaluation of the body of db.ts: the first import, a re-evaluation
\* after a hot reload, or the evaluation of another copy of the module
LoadDbModule ==
    /\ loads < MaxLoads
    /\ loads' = loads + 1
    /\ IF ~TruthyUri(MONGODB_URI)
       THEN \* db.ts:4-6, throw before anything else runs
            /\ lastLoad' = "threw"
            /\ UNCHANGED <<_mongoClient, client, constructed, exported>>
       ELSE IF UseGlobal(NODE_ENV)
       THEN \* db.ts:27-30
            /\ IF GlobalMissing(_mongoClient)
               THEN /\ constructed' = constructed + 1
                    /\ _mongoClient' = constructed + 1
               ELSE UNCHANGED <<constructed, _mongoClient>>
            /\ client' = _mongoClient'
            /\ exported' = exported \cup {client'}
            /\ lastLoad' = "exported"
       ELSE \* db.ts:33
            /\ constructed' = constructed + 1
            /\ client' = constructed + 1
            /\ exported' = exported \cup {client'}
            /\ lastLoad' = "exported"
            /\ UNCHANGED _mongoClient
    /\ UNCHANGED <<MONGODB_URI, NODE_ENV, adapterClient>>
    /\ UNCHANGED gateVars

\* auth.ts: `import client from "@/lib/db"` and MongoDBAdapter(client);
\* it runs once db.ts has been evaluated and gets the client of that module
AuthSetup ==
    /\ lastLoad = "exported"
    /\ adapterClient' = adapterClient \cup {client}
    /\ UNCHANGED <<MONGODB_URI, NODE_ENV, _mongoClient, client, constructed, exported,
                   lastLoad, loads>>
    /\ UNCHANGED gateVars

----------------------------------------------------------------------------
(* Specifications *)

InitGate ==
    /\ nav = Idle
    /\ sample = {}

InitDb ==
    /\ _mongoClient = Unset
    /\ client = Unset
    /\ constructed = 0
    /\ exported = {}
    /\ lastLoad = "none"
    /\ loads = 0
    /\ adapterClient = {}

\* the process as the repository configures it
Init ==
    /\ privateRoutes = privateRoutesSrc
    /\ InitGate
    /\ MONGODB_URI = "mongodb://localhost:27017"
    /\ NODE_ENV = "production"
    /\ InitDb

NextGate ==
    \/ \E auth \in AuthValues, pathname \in Paths : Request(auth, pathname)
    \/ Middleware
    \/ FollowRedirect

Next == NextGate

\* requests through the middleware, routes as in middleware.ts
Spec == Init /\ [][Next]_vars

\* the framework runs the middleware for every request it receives and the
\* browser follows every redirect it is sent
FairSpec == Spec /\ WF_vars(Middleware) /\ WF_vars(FollowRedirect)

\* the private-route list is edited in the source ("add or remove routes"):
\* the gate under the lists a deployment may configure, the empty one included
RouteConfigs == { <<>>, <<"/dashboard">>, privateRoutesSrc, <<"/deneme", "/about">> }

InitCfg ==
    /\ privateRoutes \in RouteConfigs
    /\ InitGate
    /\ MONGODB_URI = "mongodb://localhost:27017"
    /\ NODE_ENV = "production"
    /\ InitDb

NextCfg == NextGate

SpecCfg == InitCfg /\ [][NextCfg]_vars

\* the database module in every environment the process can be started in
InitEnv ==
    /\ privateRoutes = privateRoutesSrc
    /\ InitGate
    /\ MONGODB_URI \in UriValues
    /\ NODE_ENV \in NodeEnvValues
    /\ InitDb

NextDb ==
    \/ LoadDbModule
    \/ AuthSetup

SpecDb == InitEnv /\ [][NextDb]_vars

----------------------------------------------------------------------------
(* Properties *)

\* the middleware has answered the request of the navigation
Handled == nav.phase \in {"served", "redirected"}

\* the callback of middleware.ts ran for the request (config.matcher matched)
Gated == Handled /\ nav.gated

LoggedIn == nav.auth = Session

\* the path starts with "/dashboard" or with "/deneme"
PrivatePrefixed(pathname) ==
    StartsWith(pathname, "/dashboard") \/ StartsWith(pathname, "/deneme")

\* C1: a request that reaches the gate without a session and with a path that
\* starts with "/dashboard" or "/deneme" is answered by a redirect to "/login".
C1_UnauthenticatedPrivateRedirectsToLogin ==
    (Gated /\ ~LoggedIn /\ PrivatePrefixed(nav.path))
        => nav.decision = RedirectTo("/login")

C1_Witness ==
    /\ Gated /\ nav.auth = Null /\ nav.path = "/deneme/b"
    /\ nav.decision = RedirectTo("/login")

\* C2: a request with a session and a path that starts with "/login" is
\* answered by a redirect to "/dashboard", whatever the private-route rule says.
C2_AuthenticatedLoginRedirectsHome ==
    (Gated /\ LoggedIn /\ StartsWith(nav.path, "/login"))
        => nav.decision = RedirectTo("/dashboard")

C2_Witness ==
    /\ Gated /\ LoggedIn /\ nav.path = "/login/x"
    /\ nav.decision = RedirectTo("/dashboard")

\* C3: a request with a session and a path that starts with a private prefix
\* is allowed: the callback returns nothing and the request proceeds.
C3_AuthenticatedPrivateAllowed ==
    (Gated /\ LoggedIn /\ PrivatePrefixed(nav.path))
        => (nav.decision = Allow /\ nav.phase = "served")

C3_Witness ==
    /\ Gated /\ LoggedIn /\ nav.path = "/dashboard"
    /\ nav.decision = Allow

\* C4 as stated: a path that starts with no private prefix is allowed for every
\* verdict, unless the path IS "/login" and the verdict is authenticated.
C4_Original ==
    (Gated /\ ~PrivatePrefixed(nav.path) /\ ~(nav.path = "/login" /\ LoggedIn))
        => nav.decision = Allow

\* C4 amended: a path that starts with no private prefix is allowed for every
\* verdict, unless the path STARTS WITH "/login" and the verdict is authenticated.
C4_NonPrivateAllowed ==
    (Gated /\ ~PrivatePrefixed(nav.path)
           /\ ~(StartsWith(nav.path, "/login") /\ LoggedIn))
        => nav.decision = Allow

C4_Witness ==
    /\ Gated /\ nav.auth = Undefined /\ nav.path = "/login"
    /\ nav.decision = Allow

\* C5 as stated: with an empty private-route list the gate allows every path
\* for every verdict.
C5_Original ==
    (Gated /\ privateRoutes = <<>>) => nav.decision = Allow

\* C5 amended: with an empty private-route list no request is redirected to
\* "/login"; every request is allowed except one with a session whose path
\* starts with "/login", which is redirected to "/dashboard".
C5_EmptyConfigAllows ==
    (Gated /\ privateRoutes = <<>>)
        => nav.decision = IF LoggedIn /\ StartsWith(nav.path, "/login")
                          THEN RedirectTo("/dashboard")
                          ELSE Allow

C5_Witness ==
    /\ Gated /\ privateRoutes = <<>>
    /\ nav.auth = Null /\ nav.path = "/dashboard"
    /\ nav.decision = Allow

\* C6 as stated: in every environment exactly one MongoClient is ever
\* constructed, however often db.ts is evaluated, and every requester holds it.
C6_Original ==
    /\ constructed <= 1
    /\ Cardinality(exported) <= 1
    /\ Cardinality(adapterClient) <= 1
    /\ lastLoad = "exported" => constructed = 1

\* C6 amended: when NODE_ENV is "development" at most one MongoClient is ever
\* constructed, it is the one kept in global._mongoClient, and every evaluation
\* of db.ts exports that handle; in any other mode every successful evaluation
\* of db.ts constructs a MongoClient of its own.
C6_OneClientInDevelopment ==
    /\ NODE_ENV = "development" =>
          /\ constructed <= 1
          /\ exported \subseteq {_mongoClient}
          /\ adapterClient \subseteq {_mongoClient}
          /\ lastLoad = "exported" =>
                (constructed = 1 /\ client = _mongoClient /\ _mongoClient # Unset)
    /\ (NODE_ENV # "development" /\ lastLoad = "exported") =>
          (constructed = loads /\ client = loads /\ _mongoClient = Unset)

C6_Witness ==
    /\ NODE_ENV = "development"
    /\ loads >= 3
    /\ lastLoad = "exported"
    /\ adapterClient = {1}

\* C7: when MONGODB_URI is absent or empty, every evaluation of db.ts throws
\* before a client is constructed: no MongoClient exists, global._mongoClient is
\* not set and no handle is exported or handed to the adapter.
C7_MissingUriFailsFast ==
    MONGODB_URI \in {Undefined, ""} =>
        /\ constructed = 0
        /\ _mongoClient = Unset
        /\ client = Unset
        /\ exported = {}
        /\ adapterClient = {}
        /\ loads > 0 => lastLoad = "threw"

C7_Witness ==
    /\ MONGODB_URI = ""
    /\ NODE_ENV = "development"
    /\ loads >= 2
    /\ lastLoad = "threw"

\* C8: an invocation of the gate writes nothing that outlives the request (the
\* route list, the database module's state), and its decision equals the
\* decision of any earlier invocation with the same verdict and path, whatever
\* was decided in between.
C8_GateStatelessDeterministic ==
    [][ (nav.phase = "pending" /\ nav'.phase \in {"served", "redirected"}) =>
          /\ privateRoutes' = privateRoutes
          /\ dbVars' = dbVars
          /\ \A e \in sample :
                (nav'.gated /\ e.auth = nav'.auth /\ e.path = nav'.path)
                    => e.decision = nav'.decision ]_vars

C8_Witness ==
    /\ Gated
    /\ nav.hops = 1
    /\ \E e \in sample :
          e.auth = nav.auth /\ e.path = nav.path /\ e.decision = nav.decision

\* C9: every request whose path starts with a private prefix is matched by
\* config.matcher, so without a session it is redirected and never served; and
\* a request that is not matched has a path beginning with "/api",
\* "/_next/static", "/_next/image" or "/favicon.ico".
C9_Original ==
    Handled =>
        /\ PrivatePrefixed(nav.path) =>
              (nav.gated /\ (~LoggedIn => nav.phase = "redirected"))
        /\ ~nav.gated =>
              \/ StartsWith(nav.path, "/api")
              \/ StartsWith(nav.path, "/_next/static")
              \/ StartsWith(nav.path, "/_next/image")
              \/ StartsWith(nav.path, "/favicon.ico")

\* Lemma (safety half of the matcher claim): a request whose path starts with a
\* private prefix always runs the callback, and without a session it is
\* redirected to "/login" instead of being served.
MatcherCoversPrivateRoutes ==
    (Handled /\ PrivatePrefixed(nav.path)) =>
        /\ nav.gated
        /\ ~LoggedIn => (nav.phase = "redirected" /\ nav.decision = RedirectTo("/login"))

\* C10: a navigation follows at most one redirect, the request for the
\* redirect target is allowed, and every request ends up served.
C10_NoRedirectLoop ==
    /\ [](nav.phase # "idle" =>
            /\ nav.hops <= 1
            /\ (nav.hops = 1 /\ Handled) => (nav.decision = Allow /\ nav.gated))
    /\ (nav.phase = "pending" ~> nav.phase = "served")

C10_Witness ==
    /\ nav.phase = "served"
    /\ nav.hops = 1
    /\ nav.path = "/login"
    /\ nav.decision = Allow

====
